---- MODULE Spec2Model ----
(***************************************************************************)
(* A model of aws_dynamodb_io: the Waiter polling generator (waiter.py),   *)
(* the job records of export_table.py / import_table.py with their         *)
(* describe, list and wait_until_complete operations, and the DynamoDB     *)
(* control-plane service they talk to.                                     *)
(*                                                                         *)
(* Time is counted in clock ticks; TicksPerSec ticks make one second, so   *)
(* that Python's int() (truncation to whole seconds) is a real conversion. *)
(***************************************************************************)
EXTENDS Integers, Sequences, FiniteSets, TLC

\* ------------------------------------------------------------------ bounds

\* resolution of the clock: ticks per second
TicksPerSec == 2
\* the longest a loop body (a service call) takes, in ticks
MaxBody == 2
\* the longest time.sleep() overshoots the requested duration, in ticks
MaxOversleep == 1
\* how many loop bodies in a row run without the clock advancing
MaxSameInstant == 3

\* Waiter(delays=..., timeout=...) arguments <<delays, timeout>>, in seconds
WaiterArgs == {<<1, 0>>, <<1, 2>>, <<2, 7>>, <<3, 2>>, <<10, 20>>, <<10, 25>>}

Min(a, b) == IF a < b THEN a ELSE b

\* ------------------------------------------------------------------ values

\* Python's None, for an optional string field and for an optional record
NoneStr == "<None>"
NoneRec == [tag |-> "None"]

\* A text that is taken apart (a prefix, a handle, an S3 URI) is a sequence of
\* pieces: "/" or a piece without "/".  None for such a field:
NoneText == <<NoneStr>>

\* str.endswith
EndsWith(t, c) == Len(t) > 0 /\ t[Len(t)] = c

\* class ExportFormatEnum
ExportFormatEnum == {"DYNAMODB_JSON", "ION"}

\* class ExportStatusEnum / ImportStatusEnum
ExportStatusEnum == {"IN_PROGRESS", "COMPLETED", "FAILED"}
ImportStatusEnum == {"IN_PROGRESS", "COMPLETED", "CANCELLING", "CANCELLED", "FAILED"}

StatusEnum(knd) == IF knd = "import" THEN ImportStatusEnum ELSE ExportStatusEnum

\* failure messages the service may attach to a job
Messages == {"disk full", "access revoked"}

\* the handle (ARN) of the i-th job of the table
ArnOf(i) == <<"arn:aws:dynamodb:table/t/job", i>>

\* the job that wait_until_complete waits for
JobArn == ArnOf(1)

VARIABLES
    kind,           \* who consumes the Waiter: "plain" loop, "export" or "import" wait
    delays,         \* Waiter._delays, seconds
    timeout,        \* Waiter.timeout, seconds
    instant,        \* Waiter.instant
    pc,             \* "init", "body" (consumer holds an attempt), "resume", "done"
    now,            \* time.time() - start, in ticks
    k,              \* the next attempt number of enumerate(self.delays, k)
    attempt,        \* the attempt number last yielded (0: none yet)
    elapsed,        \* the elapsed seconds last yielded
    slept,          \* ticks requested of time.sleep before the last yield (-1: no sleep)
    sleeps,         \* the number of time.sleep calls that returned
    yieldAt,        \* the clock at the last yield (-1: none yet)
    prevYieldAt,    \* the clock at the yield before (-1: none)
    stall,          \* loop bodies run in a row without the clock advancing
    ideal,          \* every body so far took no time and every sleep was exact
    svcStatus,      \* the job's status at the service
    svcMessage,     \* the job's FailureMessage at the service
    describeCalls,  \* number of describe calls made by wait_until_complete
    inProgressSeen, \* how many of them reported IN_PROGRESS
    lastResp,       \* the service's answer to the last describe call
    lastDescribe,   \* what describe_export / describe_import made of it
    outcome,        \* "running", "returned", "raised", "break"
    retval,         \* the record returned
    exc,            \* the exception raised
    \* list_exports / list_imports
    jobs,           \* the jobs of the table at the service, in the service's order
    eagerToken,     \* the service hands out a NextToken with every full page
    page_size,      \* argument page_size
    max_results,    \* argument max_results
    get_details,    \* argument get_details
    lpc,            \* "idle", "call", "entries", "done"
    next_token,     \* local next_token (NoToken: None)
    page,           \* the summaries of the current response still to be processed
    respToken,      \* the NextToken of the current response (NoToken: absent)
    exports,        \* local exports / imports: the records collected
    calls,          \* per paged call, the token sent and the token received
    listDescribes,  \* describe calls made by the listing
    vanished,       \* entries of the result that describe found unknown
    lres,           \* "running", "returned", "raised"
    lexc,           \* the exception the listing raised
    \* one job record, the manifests and the data files
    op,             \* the operation last applied ("idle": none of them is in use)
    ejob,           \* the ExportJob / ImportJob record at hand (NoneRec: none yet)
    edesc,          \* the description of that job at the service
    body,           \* the content of the S3 object that the operation reads
    arg,            \* the argument of the operation, or the frame of the generator at hand
    result,         \* what the operation returned or raised
    out,            \* what a second operation made of the result, or the items taken so far
    s3Calls,        \* the calls made to the S3 client, in order
    ddbCalls        \* the describe calls made on behalf of the record

waitVars == <<kind, delays, timeout, instant, pc, now, k, attempt, elapsed, slept, sleeps,
              yieldAt, prevYieldAt, stall, ideal, svcStatus, svcMessage,
              describeCalls, inProgressSeen, lastResp, lastDescribe, outcome,
              retval, exc>>

listVars == <<jobs, eagerToken, page_size, max_results, get_details, lpc, next_token,
              page, respToken, exports, calls, listDescribes, vanished, lres, lexc>>

objVars == <<op, ejob, edesc, body, arg, result, out, s3Calls, ddbCalls>>

vars == <<waitVars, listVars, objVars>>

NoResp == [type |-> "none"]
NoExc == [type |-> "none"]

\* ------------------------------------------------------------------ service

\* a successful DescribeExport / DescribeImport response
OkResp(knd, arn, status, msg) ==
    [type |-> "ok",
     desc |-> [Arn |-> arn, Status |-> status, FailureMessage |-> msg,
               S3Bucket |-> "bucket", S3Prefix |-> <<"exports">>,
               ExportFormat |-> "DYNAMODB_JSON"]]

\* botocore.exceptions.ClientError with response["Error"]["Code"]
ClientError(code) == [type |-> "ClientError", code |-> code, message |-> "denied"]

\* an error that is no ClientError (botocore's EndpointConnectionError)
ConnectionError == [type |-> "EndpointConnectionError", code |-> "", message |-> "no route"]

NotFoundCode(knd) ==
    IF knd = "import" THEN "ImportNotFoundException" ELSE "ExportNotFoundException"

ErrorCodes(knd) == {NotFoundCode(knd), "AccessDeniedException"}

\* what the service may answer to describe for a job in the given state
ServiceResponses(knd, arn, status, msg) ==
    {OkResp(knd, arn, status, msg)}
        \cup {ClientError(c) : c \in ErrorCodes(knd)}
        \cup {ConnectionError}

\* the job status state machine of the service
NextStatus(knd, status) ==
    CASE status = "IN_PROGRESS" ->
            IF knd = "import" THEN {"COMPLETED", "FAILED", "CANCELLING"}
            ELSE {"COMPLETED", "FAILED"}
      [] status = "CANCELLING" -> {"CANCELLED"}
      [] OTHER -> {}

\* ------------------------------------------------------------------ records

\* a __post_init__ that leaves the prefix as it is
post_init_noop(job) == job

\* ExportJob.__post_init__ / ImportJob.__post_init__
post_init(job) ==
    IF job.s3_prefix # NoneText
    THEN IF EndsWith(job.s3_prefix, "/") = FALSE
         THEN [job EXCEPT !.s3_prefix = @ \o <<"/">>]
         ELSE job
    ELSE job

\* ExportJob(arn=..., status=..., ...): the dataclass constructor
ExportJob(arn, status, msg, bucket, prefix, format) ==
    post_init([tag |-> "ExportJob", arn |-> arn, status |-> status,
               failure_message |-> msg, s3_bucket |-> bucket, s3_prefix |-> prefix,
               export_format |-> format])

\* ImportJob(arn=..., status=..., ...): the dataclass constructor
ImportJob(arn, status, msg, bucket, prefix) ==
    post_init([tag |-> "ImportJob", arn |-> arn, status |-> status,
               failure_message |-> msg, s3_bucket |-> bucket, s3_prefix |-> prefix])

\* ExportJob.from_export_description
from_export_description(desc) ==
    ExportJob(desc.Arn, desc.Status, desc.FailureMessage, desc.S3Bucket,
              desc.S3Prefix, desc.ExportFormat)

\* ImportJob.from_import_description
from_import_description(desc) ==
    ImportJob(desc.Arn, desc.Status, desc.FailureMessage, desc.S3Bucket, desc.S3Prefix)

Return(v) == [kind |-> "return", value |-> v, exc |-> NoExc]
Raise(e) == [kind |-> "raise", value |-> NoneRec, exc |-> e]

NotImplementedError == [type |-> "NotImplementedError", code |-> "", message |-> ""]

\* a describe that lets the not-found error through
describe_export_raises(resp) ==
    IF resp.type = "ok" THEN Return(from_export_description(resp.desc))
    ELSE Raise(resp)

\* ExportJob.describe_export, given the service's answer
describe_export(resp) ==
    IF resp.type = "ok" THEN Return(from_export_description(resp.desc))
    ELSE IF resp.type = "ClientError"
         THEN IF resp.code = "ExportNotFoundException"
              THEN Return(NoneRec)
              ELSE Raise(NotImplementedError)
         ELSE Raise(resp)

\* ImportJob.describe_import, given the service's answer
describe_import(resp) ==
    IF resp.type = "ok" THEN Return(from_import_description(resp.desc))
    ELSE IF resp.type = "ClientError"
         THEN IF resp.code = "ImportNotFoundException"
              THEN Return(NoneRec)
              ELSE Raise(NotImplementedError)
         ELSE Raise(resp)

describe(knd, resp) ==
    IF knd = "import" THEN describe_import(resp) ELSE describe_export(resp)

\* a check that takes a job still in progress for a completed one
is_completed_or_running(job) == job.status \in {"COMPLETED", "IN_PROGRESS"}

\* ExportJob.is_completed / ImportJob.is_completed
is_completed(job) == job.status = "COMPLETED"

\* a check that never sees a failure
is_failed_never(job) == FALSE

\* ExportJob.is_failed
is_failed(job) == job.status = "FAILED"

\* a list that takes every status but COMPLETED for a failure
ImportRaiseStatuses_all == ImportStatusEnum \ {"COMPLETED"}

\* the statuses on which ImportJob.wait_until_complete raises
ImportRaiseStatuses == {"CANCELLING", "CANCELLED", "FAILED"}

\* str(x) inside an f-string
Str(x) == IF x = NoneStr THEN "None" ELSE x

ValueError(prefix, msg) ==
    [type |-> "ValueError", code |-> prefix, message |-> Str(msg)]

AttributeError == [type |-> "AttributeError", code |-> "", message |-> "NoneType"]

\* the body of the for loop of wait_until_complete, given what describe gave:
\* "return" a record, "raise" an exception, or "continue" with the next attempt
export_wait_body(d) ==
    IF d.kind = "raise" THEN [do |-> "raise", value |-> NoneRec, exc |-> d.exc]
    ELSE IF d.value = NoneRec
         THEN [do |-> "raise", value |-> NoneRec, exc |-> AttributeError]
    ELSE IF is_completed(d.value)
         THEN [do |-> "return", value |-> d.value, exc |-> NoExc]
    ELSE IF is_failed(d.value)
         THEN [do |-> "raise", value |-> NoneRec,
               exc |-> ValueError("Export failed: ", d.value.failure_message)]
    ELSE [do |-> "continue", value |-> NoneRec, exc |-> NoExc]

import_wait_body(d) ==
    IF d.kind = "raise" THEN [do |-> "raise", value |-> NoneRec, exc |-> d.exc]
    ELSE IF d.value = NoneRec
         THEN [do |-> "raise", value |-> NoneRec, exc |-> AttributeError]
    ELSE IF is_completed(d.value)
         THEN [do |-> "return", value |-> d.value, exc |-> NoExc]
    ELSE IF d.value.status \in ImportRaiseStatuses
         THEN [do |-> "raise", value |-> NoneRec,
               exc |-> ValueError("Import failed: ", d.value.failure_message)]
    ELSE [do |-> "continue", value |-> NoneRec, exc |-> NoExc]

wait_body(knd, d) ==
    IF knd = "import" THEN import_wait_body(d) ELSE export_wait_body(d)

\* ------------------------------------------------------------------ Waiter

\* int(x) of a time in ticks: whole seconds
IntSeconds(ticks) == ticks \div TicksPerSec

\* end - start
Deadline == timeout * TicksPerSec

\* a guard that lets the deadline pass
TimedOut_late(remaining) == remaining < 0 - 1000

\* the guard of "raise TimeoutError": remaining < 0
TimedOut(remaining) == remaining < 0

\* a sleep that is not cut to the time remaining
SleepFor_full(delay, remaining) == delay

\* the argument of time.sleep: min(delay, remaining)
SleepFor(delay, remaining) == Min(delay, remaining)

\* an elapsed time that leaves out the sleep
ElapsedOf_before(t, delay) == IntSeconds(t)

\* elapsed = int(now - start + delay)
ElapsedOf(t, delay) == IntSeconds(t + delay)

\* a numbering of the attempts that leaves one out
EnumerateNext_skip(n) == n + 2

\* enumerate(self.delays, k): the number after n
EnumerateNext(n) == n + 1

TimeoutError == [type |-> "TimeoutError", code |-> "", message |-> "timed out"]

\* time.sleep of a negative duration
SleepValueError ==
    [type |-> "ValueError", code |-> "", message |-> "sleep length must be non-negative"]

InitWaiter(kinds) ==
    /\ kind \in kinds
    /\ \E a \in WaiterArgs : delays = a[1] /\ timeout = a[2]
    /\ instant \in (IF kind = "plain" THEN BOOLEAN ELSE {TRUE})
    /\ pc = "init"
    /\ now = 0
    /\ k = 1
    /\ attempt = 0
    /\ elapsed = 0
    /\ slept = -1
    /\ sleeps = 0
    /\ yieldAt = -1
    /\ prevYieldAt = -1
    /\ stall = 0
    /\ ideal = TRUE
    /\ svcStatus \in StatusEnum(kind)
    /\ svcMessage \in (IF svcStatus = "FAILED" THEN Messages \cup {NoneStr} ELSE {NoneStr})
    /\ describeCalls = 0
    /\ inProgressSeen = 0
    /\ lastResp = NoResp
    /\ lastDescribe = Return(NoneRec)
    /\ outcome = "running"
    /\ retval = NoneRec
    /\ exc = NoExc

svcUnchanged == UNCHANGED <<svcStatus, svcMessage>>
callUnchanged == UNCHANGED <<describeCalls, inProgressSeen, lastResp, lastDescribe>>
cfgUnchanged == UNCHANGED <<kind, delays, timeout, instant, listVars, objVars>>
yieldUnchanged == UNCHANGED <<k, attempt, elapsed, slept, sleeps, yieldAt, prevYieldAt>>

\* Waiter.__iter__ up to the first yield: with instant, "yield 1, 0"
WaiterStart ==
    /\ pc = "init"
    /\ outcome = "running"
    /\ IF instant
       THEN /\ k' = 2
            /\ attempt' = 1
            /\ elapsed' = 0
            /\ yieldAt' = now
            /\ pc' = "body"
       ELSE /\ pc' = "resume"
            /\ UNCHANGED <<k, attempt, elapsed, yieldAt>>
    /\ UNCHANGED <<slept, sleeps, prevYieldAt, now, stall, ideal, outcome, retval, exc>>
    /\ cfgUnchanged /\ svcUnchanged /\ callUnchanged

\* one round of the for loop whose remaining time is negative: raise TimeoutError
WaiterTimeout ==
    /\ pc = "resume"
    /\ outcome = "running"
    /\ TimedOut(Deadline - now)
    /\ pc' = "done"
    /\ outcome' = "raised"
    /\ exc' = TimeoutError
    /\ UNCHANGED <<now, stall, ideal, retval>>
    /\ yieldUnchanged /\ cfgUnchanged /\ svcUnchanged /\ callUnchanged

\* one round of the for loop that sleeps and yields (attempt, elapsed)
WaiterSleep ==
    /\ pc = "resume"
    /\ outcome = "running"
    /\ ~TimedOut(Deadline - now)
    /\ LET req == SleepFor(delays * TicksPerSec, Deadline - now)
       IN IF req < 0
          THEN \* time.sleep raises, and the generator with it
               /\ pc' = "done"
               /\ outcome' = "raised"
               /\ exc' = SleepValueError
               /\ UNCHANGED <<now, stall, ideal>>
               /\ yieldUnchanged
          ELSE /\ \E over \in 0..MaxOversleep :
                     \* a sleep of nothing returns at once
                     LET dur == IF req = 0 THEN 0 ELSE req + over
                     IN /\ slept' = req
                        /\ sleeps' = sleeps + 1
                        /\ now' = now + dur
                        /\ elapsed' = ElapsedOf(now, delays * TicksPerSec)
                        /\ attempt' = k
                        /\ k' = EnumerateNext(k)
                        /\ prevYieldAt' = yieldAt
                        /\ yieldAt' = now + dur
                        /\ stall' = IF dur > 0 THEN 0 ELSE stall
                        /\ ideal' = (ideal /\ dur = req)
               /\ pc' = "body"
               /\ UNCHANGED <<outcome, exc>>
    /\ UNCHANGED retval
    /\ cfgUnchanged /\ svcUnchanged /\ callUnchanged

\* a body of no duration is possible only while the clock may still stand still
BodyTimes == {d \in 0..MaxBody : d > 0 \/ stall < MaxSameInstant}

\* the body of a plain "for attempt, elapse in Waiter(...)" loop that goes on
ConsumerBody ==
    /\ pc = "body"
    /\ kind = "plain"
    /\ \E d \in BodyTimes :
          /\ now' = now + d
          /\ stall' = IF d = 0 THEN stall + 1 ELSE 0
          /\ ideal' = (ideal /\ d = 0)
    /\ pc' = "resume"
    /\ UNCHANGED <<outcome, retval, exc>>
    /\ yieldUnchanged /\ cfgUnchanged /\ svcUnchanged /\ callUnchanged

\* the consumer breaks out of the loop
ConsumerBreak ==
    /\ pc = "body"
    /\ kind = "plain"
    /\ pc' = "done"
    /\ outcome' = "break"
    /\ UNCHANGED <<now, stall, ideal, retval, exc>>
    /\ yieldUnchanged /\ cfgUnchanged /\ svcUnchanged /\ callUnchanged

\* the body of the loop of ExportJob / ImportJob.wait_until_complete:
\* one describe call, then return, raise or go on
WaitBody ==
    /\ pc = "body"
    /\ kind \in {"export", "import"}
    /\ \E d \in BodyTimes, resp \in ServiceResponses(kind, JobArn, svcStatus, svcMessage) :
          LET got == describe(kind, resp)
              act == wait_body(kind, got)
          IN /\ now' = now + d
             /\ stall' = IF d = 0 THEN stall + 1 ELSE 0
             /\ ideal' = (ideal /\ d = 0)
             /\ describeCalls' = describeCalls + 1
             /\ inProgressSeen' = IF resp.type = "ok" /\ resp.desc.Status = "IN_PROGRESS"
                                  THEN inProgressSeen + 1 ELSE inProgressSeen
             /\ lastResp' = resp
             /\ lastDescribe' = got
             /\ retval' = act.value
             /\ exc' = act.exc
             /\ outcome' = CASE act.do = "return" -> "returned"
                             [] act.do = "raise" -> "raised"
                             [] OTHER -> "running"
             /\ pc' = IF act.do = "continue" THEN "resume" ELSE "done"
    /\ yieldUnchanged /\ cfgUnchanged /\ svcUnchanged

\* the job moves on at the service
ServiceAdvance ==
    /\ kind \in {"export", "import"}
    /\ outcome = "running"
    /\ \E s \in NextStatus(kind, svcStatus) :
          /\ svcStatus' = s
          /\ svcMessage' \in (IF s = "FAILED" THEN Messages \cup {NoneStr} ELSE {NoneStr})
    /\ UNCHANGED <<pc, now, stall, ideal, outcome, retval, exc>>
    /\ yieldUnchanged /\ cfgUnchanged /\ callUnchanged

\* ------------------------------------------------------------------ listing

\* bounds of the listing
MaxJobs == 7
MaxPageSize == 3
MaxVanished == 2

\* next_token = None / a response without "NextToken"
NoToken == -1

\* the status of the i-th job of the table
JobStatusOf(knd, i) ==
    IF i % 3 = 1 THEN "COMPLETED"
    ELSE IF i % 3 = 2 THEN "IN_PROGRESS"
    ELSE "FAILED"

JobMessageOf(knd, i) == IF JobStatusOf(knd, i) = "FAILED" THEN "disk full" ELSE NoneStr

\* an entry of ExportSummaries / ImportSummaryList
SummaryOf(knd, i) == [Arn |-> ArnOf(i), Status |-> JobStatusOf(knd, i), Index |-> i]

\* the service's ListExports / ListImports: the page that starts after `token`
ListResponse(all, eager, token, size) ==
    LET off == IF token = NoToken THEN 0 ELSE token
        last == Min(off + size, Len(all))
        more == last < Len(all) \/ (eager /\ last = off + size)
    IN [summaries |-> SubSeq(all, off + 1, last),
        token |-> IF more THEN last ELSE NoToken]

\* a thin record that has a bucket all the same
ThinJob_filled(knd, arn, status) ==
    IF knd = "import"
    THEN ImportJob(arn, status, NoneStr, "bucket", NoneText)
    ELSE ExportJob(arn, status, NoneStr, "bucket", NoneText, NoneStr)

\* cls(arn=..., status=...): a thin record
ThinJob(knd, arn, status) ==
    IF knd = "import"
    THEN ImportJob(arn, status, NoneStr, NoneStr, NoneText)
    ELSE ExportJob(arn, status, NoneStr, NoneStr, NoneText, NoneStr)

\* "if len(exports) >= max_results: return exports", tested after the append
ReachedMax(n, limit) == n >= limit

InitListing(kinds) ==
    /\ kind \in kinds
    /\ \E n \in 0..MaxJobs : jobs = [i \in 1..n |-> SummaryOf(kind, i)]
    /\ eagerToken \in BOOLEAN
    /\ page_size \in 1..MaxPageSize
    /\ max_results \in 0..MaxJobs + 1
    /\ get_details \in BOOLEAN
    /\ lpc = "call"
    /\ next_token = NoToken
    /\ page = <<>>
    /\ respToken = NoToken
    /\ exports = <<>>
    /\ calls = <<>>
    /\ listDescribes = 0
    /\ vanished = 0
    /\ lres = "running"
    /\ lexc = NoExc

\* no listing is going on
ListingIdle ==
    /\ jobs = <<>>
    /\ eagerToken = FALSE
    /\ page_size = 1
    /\ max_results = 0
    /\ get_details = FALSE
    /\ lpc = "idle"
    /\ next_token = NoToken
    /\ page = <<>>
    /\ respToken = NoToken
    /\ exports = <<>>
    /\ calls = <<>>
    /\ listDescribes = 0
    /\ vanished = 0
    /\ lres = "running"
    /\ lexc = NoExc

\* ------------------------------------------------------------------ one job record

\* the longest prefix, in pieces
MaxPrefixLen == 2

\* the prefixes a caller or the service may give: texts of "p" and "/"
Prefixes == UNION {[1..n -> {"p", "/"}] : n \in 0..MaxPrefixLen}

\* the handle of the export job whose files are read
ExportArn ==
    <<"arn:aws:dynamodb:us-east-1:111122223333:table", "/", "t", "/", "export", "/",
      "01672531200000-a1b2c3d4">>

\* the ExportDescription / ImportTableDescription of the job at hand
Descriptions(knd) ==
    {[Arn |-> ExportArn, Status |-> st, FailureMessage |-> NoneStr,
      S3Bucket |-> "bucket", S3Prefix |-> p, ExportFormat |-> f] :
        st \in {"COMPLETED", "IN_PROGRESS"},
        p \in Prefixes \cup {NoneText},
        f \in (IF knd = "import" THEN {"DYNAMODB_JSON"} ELSE ExportFormatEnum)}

\* what the service may answer when the record asks for its description
DescribeAnswers(knd, desc) ==
    {[type |-> "ok", desc |-> desc]}
        \cup {ClientError(c) : c \in ErrorCodes(knd)}
        \cup {ConnectionError}

\* the positions of "/" in a text
Slashes(t) == {i \in 1..Len(t) : t[i] = "/"}

\* the n-th smallest element of a set of numbers
Nth(S, n) == CHOOSE x \in S : Cardinality({y \in S : y < x}) = n - 1

\* a short id taken from the front of the handle
export_short_id_first(job) ==
    LET sl == Slashes(job.arn)
        to == IF sl = {} THEN Len(job.arn) ELSE Nth(sl, 1) - 1
    IN SubSeq(job.arn, 1, to)

\* ExportJob.export_short_id: arn.split("/")[-1]
export_short_id(job) ==
    LET sl == Slashes(job.arn)
        from == IF sl = {} THEN 1 ELSE Nth(sl, Cardinality(sl)) + 1
    IN SubSeq(job.arn, from, Len(job.arn))

\* a text field inside an f-string
TextStr(t) == IF t = NoneText THEN <<"None">> ELSE t

\* ExportJob.s3uri_export: f"s3://{self.s3_bucket}/{self.s3_prefix}"
s3uri_export(job) ==
    <<"s3:", "/", "/", Str(job.s3_bucket), "/">> \o TextStr(job.s3_prefix)

\* ExportJob._s3uri_export_root
s3uri_export_root(job) ==
    s3uri_export(job) \o <<"AWSDynamoDB", "/">> \o export_short_id(job) \o <<"/">>

\* ExportJob.s3uri_export_data
s3uri_export_data(job) == s3uri_export_root(job) \o <<"data", "/">>

\* ExportJob.s3uri_export_manifest_files
s3uri_export_manifest_files(job) == s3uri_export_root(job) \o <<"manifest-files.json">>

\* ExportJob.s3uri_export_manifest_summary
s3uri_export_manifest_summary(job) ==
    s3uri_export_root(job) \o <<"manifest-summary.json">>

IndexError == [type |-> "IndexError", code |-> "", message |-> "list index out of range"]

\* utils.split_s3_uri: parts = s3uri.split("/", 3); parts[2], parts[3]
split_s3_uri(s3uri) ==
    LET sl == Slashes(s3uri)
    IN IF Cardinality(sl) < 3 THEN Raise(IndexError)
       ELSE Return([bucket |-> SubSeq(s3uri, Nth(sl, 2) + 1, Nth(sl, 3) - 1),
                    key |-> SubSeq(s3uri, Nth(sl, 3) + 1, Len(s3uri))])

\* getattr(None, field.name) in get_details
NoneAttributeError == [type |-> "AttributeError", code |-> "", message |-> "NoneType"]

\* ExportJob.get_details, given the service's answer: the refreshed record, or
\* the exception
job_get_details(job, resp) ==
    LET export == describe_export(resp)
    IN IF export.kind = "raise" THEN export
       ELSE IF export.value = NoneRec THEN Raise(NoneAttributeError)
       ELSE Return(post_init(export.value))

\* an _ensure_details that asks the service every time
needs_details_always(job) == TRUE

\* ExportJob._ensure_details: whether get_details is called
needs_details(job) == job.s3_bucket = NoneStr

NoResult == [kind |-> "none", value |-> NoneRec, exc |-> NoExc]

\* the S3 client's get_object on an object that is not there
NoSuchKey == [type |-> "ClientError", code |-> "NoSuchKey", message |-> "not found"]

\* the records a caller may hold of the job: thin, as a listing gives it, or
\* detailed, as describe gives it
RecordsOf(knd, desc) ==
    {ThinJob(knd, desc.Arn, desc.Status),
     IF knd = "import" THEN from_import_description(desc)
     ELSE from_export_description(desc)}

InitObject(scenario, bodies, args) ==
    /\ op = scenario
    /\ kind = "export"
    /\ edesc \in Descriptions(kind)
    /\ ejob \in RecordsOf(kind, edesc)
    /\ body \in bodies
    /\ arg \in args
    /\ result = NoResult
    /\ out = NoResult
    /\ s3Calls = <<>>
    /\ ddbCalls = 0

objUnchanged == UNCHANGED <<waitVars, listVars>>

\* the most calls to the services in one sequence of manifest reads
MaxCalls == 4

\* the content of the manifest `which` in the bucket
ObjectAt(which) == IF op \in {"reads", "stream"} THEN body[which] ELSE body

\* a call may start: the only call of its scenario, or one more of a sequence
MayRead(scenario) ==
    \/ op = scenario /\ result = NoResult
    \/ op = "reads" /\ ddbCalls + Len(s3Calls) < MaxCalls

\* the manifest that a call reads: the summary or the list of data files
ManifestUri(job, which) ==
    IF which = "summary" THEN s3uri_export_manifest_summary(job)
    ELSE s3uri_export_manifest_files(job)

\* ExportJob._ensure_details followed by get_object on a manifest of the job:
\* the record afterwards, the calls made, and the object's content or the
\* exception; `found` tells whether the object is there
Fetch(job, resp, which, found) ==
    LET det == IF needs_details(job) THEN job_get_details(job, resp) ELSE Return(job)
        job2 == IF det.kind = "return" THEN det.value ELSE job
        loc == IF det.kind = "return" THEN split_s3_uri(ManifestUri(job2, which)) ELSE det
        call == IF loc.kind = "return"
                THEN <<[api |-> "get_object", Bucket |-> loc.value.bucket,
                        Key |-> loc.value.key]>>
                ELSE <<>>
    IN [job |-> job2,
        described |-> IF needs_details(job) THEN 1 ELSE 0,
        calls |-> call,
        bucket |-> IF loc.kind = "return" THEN loc.value.bucket ELSE <<>>,
        got |-> IF det.kind = "raise" THEN det
                ELSE IF loc.kind = "raise" THEN loc
                ELSE IF found THEN Return(ObjectAt(which))
                ELSE Raise(NoSuchKey)]

\* ------------------------------------------------------------------ manifest summary

\* the largest item count of a summary
MaxItemCount == 2

\* the keys that ManifestSummary.from_dict reads with data[...]
RequiredKeys ==
    {"version", "exportArn", "tableId", "tableArn", "s3Bucket", "s3Prefix",
     "s3SseAlgorithm", "itemCount", "outputFormat", "startTime", "endTime",
     "manifestFilesS3Key", "billedSizeBytes", "exportType"}

\* the keys of a summary of a full export and of an incremental export
FullKeys == RequiredKeys \cup {"s3SseKmsKeyId", "exportTime"}
IncrementalKeys ==
    RequiredKeys \cup {"s3SseKmsKeyId", "outputView", "exportFromTime", "exportToTime"}

\* class ExportTypeEnum
ExportTypeEnum == {"FULL_EXPORT", "INCREMENTAL_EXPORT"}

\* the summary documents with the given keys and exportType tag
DocsOf(keys, type) ==
    {[key \in keys |->
        CASE key = "s3SseKmsKeyId" -> kms
          [] key = "s3SseAlgorithm" -> alg
          [] key = "itemCount" -> n
          [] key = "billedSizeBytes" -> 0
          [] key = "outputView" -> view
          [] key = "outputFormat" -> fmt
          [] key = "exportType" -> type
          [] OTHER -> key] :
        kms \in {NoneStr, "kms-key-1"}, alg \in {"AES256", "KMS"},
        n \in 0..MaxItemCount, view \in {"NEW_IMAGE", "NEW_AND_OLD_IMAGES"},
        fmt \in ExportFormatEnum}

\* the valid summary documents, of both variants
ValidDocs ==
    DocsOf(FullKeys, "FULL_EXPORT") \cup DocsOf(IncrementalKeys, "INCREMENTAL_EXPORT")

\* documents with a tag that is neither
UnknownTagDocs ==
    DocsOf(FullKeys, "SNAPSHOT_EXPORT") \cup DocsOf(IncrementalKeys, "SNAPSHOT_EXPORT")

\* dict.get(key): None when the key is absent
Get(data, key) == IF key \in DOMAIN data THEN data[key] ELSE NoneStr

KeyError == [type |-> "KeyError", code |-> "", message |-> "key"]

\* a from_dict that forgets the server-side encryption key
from_dict_nokms(data) ==
    IF ~(RequiredKeys \subseteq DOMAIN data) THEN Raise(KeyError)
    ELSE Return(
        [tag |-> "ManifestSummary",
         version |-> data["version"],
         export_arn |-> data["exportArn"],
         table_id |-> data["tableId"],
         table_arn |-> data["tableArn"],
         s3_bucket |-> data["s3Bucket"],
         s3_prefix |-> data["s3Prefix"],
         s3_sse_algorithm |-> data["s3SseAlgorithm"],
         s3_sse_kms_key_id |-> NoneStr,
         item_count |-> data["itemCount"],
         output_format |-> data["outputFormat"],
         output_view |-> Get(data, "outputView"),
         export_from_time_str |-> Get(data, "exportFromTime"),
         export_to_time_str |-> Get(data, "exportToTime"),
         start_time_str |-> data["startTime"],
         end_time_str |-> data["endTime"],
         export_time_str |-> Get(data, "exportTime"),
         manifest_files_s3_key |-> data["manifestFilesS3Key"],
         billed_size_bytes |-> data["billedSizeBytes"],
         export_type |-> data["exportType"]])

\* ManifestSummary.from_dict
from_dict(data) ==
    IF ~(RequiredKeys \subseteq DOMAIN data) THEN Raise(KeyError)
    ELSE Return(
        [tag |-> "ManifestSummary",
         version |-> data["version"],
         export_arn |-> data["exportArn"],
         table_id |-> data["tableId"],
         table_arn |-> data["tableArn"],
         s3_bucket |-> data["s3Bucket"],
         s3_prefix |-> data["s3Prefix"],
         s3_sse_algorithm |-> data["s3SseAlgorithm"],
         s3_sse_kms_key_id |-> Get(data, "s3SseKmsKeyId"),
         item_count |-> data["itemCount"],
         output_format |-> data["outputFormat"],
         output_view |-> Get(data, "outputView"),
         export_from_time_str |-> Get(data, "exportFromTime"),
         export_to_time_str |-> Get(data, "exportToTime"),
         start_time_str |-> data["startTime"],
         end_time_str |-> data["endTime"],
         export_time_str |-> Get(data, "exportTime"),
         manifest_files_s3_key |-> data["manifestFilesS3Key"],
         billed_size_bytes |-> data["billedSizeBytes"],
         export_type |-> data["exportType"]])

\* ManifestSummary.is_full_export / is_incremental_export
is_full_export(ms) == ms.export_type = "FULL_EXPORT"
is_incremental_export(ms) == ms.export_type = "INCREMENTAL_EXPORT"

\* the fields that to_dict writes for every variant
CommonDict(ms) ==
    [key \in RequiredKeys \cup {"s3SseKmsKeyId"} |->
        CASE key = "version" -> ms.version
          [] key = "exportArn" -> ms.export_arn
          [] key = "tableId" -> ms.table_id
          [] key = "tableArn" -> ms.table_arn
          [] key = "s3Bucket" -> ms.s3_bucket
          [] key = "s3Prefix" -> ms.s3_prefix
          [] key = "s3SseAlgorithm" -> ms.s3_sse_algorithm
          [] key = "s3SseKmsKeyId" -> ms.s3_sse_kms_key_id
          [] key = "itemCount" -> ms.item_count
          [] key = "outputFormat" -> ms.output_format
          [] key = "startTime" -> ms.start_time_str
          [] key = "endTime" -> ms.end_time_str
          [] key = "manifestFilesS3Key" -> ms.manifest_files_s3_key
          [] key = "billedSizeBytes" -> ms.billed_size_bytes
          [] key = "exportType" -> ms.export_type]

\* ManifestSummary.to_dict
to_dict(ms) ==
    IF is_full_export(ms)
    THEN Return(CommonDict(ms) @@ [key \in {"exportTime"} |-> ms.export_time_str])
    ELSE IF is_incremental_export(ms)
    THEN Return(CommonDict(ms)
                 @@ [key \in {"outputView", "exportFromTime", "exportToTime"} |->
                        CASE key = "outputView" -> ms.output_view
                          [] key = "exportFromTime" -> ms.export_from_time_str
                          [] key = "exportToTime" -> ms.export_to_time_str])
    ELSE Raise(NotImplementedError)

\* json.loads of a text that is no JSON; lineno counts inside the text parsed
JSONDecodeError ==
    [type |-> "JSONDecodeError", code |-> "", message |-> "Expecting value", lineno |-> 1]

\* the pieces of a text that is parsed: a JSON value that stands for `data`, a
\* piece that is no JSON, and the line feed; a text is a sequence of pieces
JsonText(data) == [syntax |-> "json", data |-> data]
BadJson == [syntax |-> "malformed"]
NL == [syntax |-> "newline"]

\* json.loads: exactly one value, white space around it
json_loads(text) ==
    LET values == SelectSeq(text, LAMBDA piece : piece # NL)
    IN IF Len(values) = 1 /\ values[1].syntax = "json" THEN Return(values[1].data)
       ELSE Raise(JSONDecodeError)

\* ExportJob.get_manifest_summary
GetManifestSummary ==
    /\ MayRead("summary")
    /\ arg' = [which |-> "summary", before |-> ejob, ddbBefore |-> ddbCalls]
    /\ \E resp \in DescribeAnswers(kind, edesc), found \in BOOLEAN :
          LET f == Fetch(ejob, resp, "summary", found)
              data == IF f.got.kind = "return" THEN json_loads(f.got.value) ELSE f.got
          IN /\ ejob' = f.job
             /\ ddbCalls' = ddbCalls + f.described
             /\ s3Calls' = s3Calls \o f.calls
             /\ result' = IF data.kind = "return" THEN from_dict(data.value) ELSE data
    /\ UNCHANGED <<op, edesc, body, out>>
    /\ objUnchanged

\* ManifestSummary.to_dict of the summary that get_manifest_summary returned
SummaryToDict ==
    /\ op = "summary"
    /\ result.kind = "return"
    /\ out = NoResult
    /\ out' = to_dict(result.value)
    /\ UNCHANGED <<op, ejob, edesc, body, arg, result, s3Calls, ddbCalls>>
    /\ objUnchanged

\* ------------------------------------------------------------------ per-file manifest

\* the longest per-file manifest, in pieces
MaxPieces == 4

\* str.splitlines: the runs between line feeds; a text that ends with a line
\* feed has no empty last line
RECURSIVE SplitLinesFrom(_, _)
SplitLinesFrom(text, line) ==
    IF text = <<>> THEN (IF line = <<>> THEN <<>> ELSE <<line>>)
    ELSE IF Head(text) = NL THEN <<line>> \o SplitLinesFrom(Tail(text), <<>>)
    ELSE SplitLinesFrom(Tail(text), Append(line, Head(text)))

splitlines(text) == SplitLinesFrom(text, <<>>)

\* the lines a per-file manifest may be made of
ManifestEntry(name, n) ==
    [itemCount |-> n, md5Checksum |-> "md5-" \o name, etag |-> "etag-" \o name,
     dataFileS3Key |-> <<"data", "/", name \o ".json.gz">>]

\* a line that is JSON but lacks dataFileS3Key
EntryWithoutKey == [itemCount |-> 0, md5Checksum |-> "md5-c", etag |-> "etag-c"]

ManifestPieces ==
    {JsonText(ManifestEntry("a", 1)), JsonText(ManifestEntry("b", 2)),
     JsonText(EntryWithoutKey), BadJson, NL}

\* the per-file manifests: no two values on one line without a line feed
Manifests ==
    {t \in UNION {[1..n -> ManifestPieces] : n \in 0..MaxPieces} :
        \A i \in 1..(Len(t) - 1) : t[i] = NL \/ t[i + 1] = NL}

\* a DataFile(...) with md5 and etag taken from each other's key
DataFileOf_swapped(data, bucket, job) ==
    IF ~({"itemCount", "md5Checksum", "etag", "dataFileS3Key"} \subseteq DOMAIN data)
    THEN Raise(KeyError)
    ELSE Return([tag |-> "DataFile",
                 item_count |-> data["itemCount"],
                 md5 |-> data["etag"],
                 etag |-> data["md5Checksum"],
                 s3_bucket |-> bucket,
                 s3_key |-> data["dataFileS3Key"],
                 export_arn |-> job.arn,
                 export_format |-> job.export_format])

\* DataFile(...) of one parsed line, for the job and the bucket of the manifest
DataFileOf(data, bucket, job) ==
    IF ~({"itemCount", "md5Checksum", "etag", "dataFileS3Key"} \subseteq DOMAIN data)
    THEN Raise(KeyError)
    ELSE Return([tag |-> "DataFile",
                 item_count |-> data["itemCount"],
                 md5 |-> data["md5Checksum"],
                 etag |-> data["etag"],
                 s3_bucket |-> bucket,
                 s3_key |-> data["dataFileS3Key"],
                 export_arn |-> job.arn,
                 export_format |-> job.export_format])

\* the loop of get_data_files that leaves out the lines that do not parse
RECURSIVE data_file_list_lenient(_, _, _)
data_file_list_lenient(lines, bucket, job) ==
    IF lines = <<>> THEN Return(<<>>)
    ELSE LET data == json_loads(Head(lines))
             rest == data_file_list_lenient(Tail(lines), bucket, job)
         IN IF data.kind = "raise" THEN rest
            ELSE LET file == DataFileOf(data.value, bucket, job)
                 IN IF file.kind = "raise" THEN file
                    ELSE IF rest.kind = "raise" THEN rest
                    ELSE Return(<<file.value>> \o rest.value)

\* the loop of get_data_files: "for line in lines", the first line that fails
\* ends the call
RECURSIVE data_file_list(_, _, _)
data_file_list(lines, bucket, job) ==
    IF lines = <<>> THEN Return(<<>>)
    ELSE LET data == json_loads(Head(lines))
         IN IF data.kind = "raise" THEN data
            ELSE LET file == DataFileOf(data.value, bucket, job)
                 IN IF file.kind = "raise" THEN file
                    ELSE LET rest == data_file_list(Tail(lines), bucket, job)
                         IN IF rest.kind = "raise" THEN rest
                            ELSE Return(<<file.value>> \o rest.value)

\* ExportJob.get_data_files
GetDataFiles ==
    /\ MayRead("files")
    /\ arg' = [which |-> "files", before |-> ejob, ddbBefore |-> ddbCalls]
    /\ \E resp \in DescribeAnswers(kind, edesc), found \in BOOLEAN :
          LET f == Fetch(ejob, resp, "files", found)
          IN /\ ejob' = f.job
             /\ ddbCalls' = ddbCalls + f.described
             /\ s3Calls' = s3Calls \o f.calls
             /\ result' = IF f.got.kind = "return"
                          THEN data_file_list(splitlines(f.got.value), f.bucket, f.job)
                          ELSE f.got
    /\ UNCHANGED <<op, edesc, body, out>>
    /\ objUnchanged

\* the export completes at the service while a caller holds a record of it
ExportCompletes ==
    /\ op = "reads"
    /\ edesc.Status = "IN_PROGRESS"
    /\ edesc' = [edesc EXCEPT !.Status = "COMPLETED"]
    /\ UNCHANGED <<op, ejob, body, arg, result, out, s3Calls, ddbCalls>>
    /\ objUnchanged

\* ------------------------------------------------------------------ data files

\* the bytes of an S3 object: a text, gzip-compressed or as it is
Bytes(encoding, text) == [encoding |-> encoding, text |-> text]

\* gzip.compress(text.encode("utf-8"))
gzip_compress(text) == Bytes("gzip", text)

BadGzipFile == [type |-> "BadGzipFile", code |-> "", message |-> "Not a gzipped file"]

\* gzip.decompress(...).decode("utf-8")
gzip_decompress(bytes) ==
    IF bytes.encoding = "gzip" THEN Return(bytes.text) ELSE Raise(BadGzipFile)

\* an Ion value written on one line of a data file
IonText(value) == [syntax |-> "ion", value |-> value]

\* the Ion values of a line: a struct with "Item", a struct without, and values
\* that are no struct
IonValues ==
    {[ion |-> "struct", fields |-> [Item |-> "item-a"]],
     [ion |-> "struct", fields |-> [Item |-> "item-b"]],
     [ion |-> "struct", fields |-> [Meta |-> "m"]],
     [ion |-> "int"],
     [ion |-> "list"]}

IonPieces == {IonText(v) : v \in IonValues} \cup {BadJson, NL}

\* the texts of an Ion data file: no two values on one line
IonDataTexts ==
    {t \in UNION {[1..n -> IonPieces] : n \in 0..MaxPieces} :
        \A i \in 1..(Len(t) - 1) : t[i] = NL \/ t[i + 1] = NL}

IonException == [type |-> "IonException", code |-> "", message |-> "no single value"]
TypeError == [type |-> "TypeError", code |-> "", message |-> "not subscriptable"]

\* amazon_ion.loads(line): the single value of the line
ion_loads(line) ==
    IF Len(line) = 1 /\ line[1].syntax = "ion" THEN Return(line[1].value)
    ELSE Raise(IonException)

\* value["Item"]
ItemOf(value) ==
    IF value.ion # "struct" THEN Raise(TypeError)
    ELSE IF "Item" \in DOMAIN value.fields THEN Return(value.fields["Item"])
    ELSE Raise(KeyError)

\* amazon_ion.loads(line, **ion_loads_kwargs)["Item"]
IonItemOf(line) ==
    LET value == ion_loads(line)
    IN IF value.kind = "raise" THEN value ELSE ItemOf(value.value)

\* the loop of read_amazon_ion without "except TypeError"
RECURSIVE ion_dict_list_strict(_)
ion_dict_list_strict(lines) ==
    IF lines = <<>> THEN Return(<<>>)
    ELSE LET item == IonItemOf(Head(lines))
         IN IF item.kind = "raise" THEN item
            ELSE LET rest == ion_dict_list_strict(Tail(lines))
                 IN IF rest.kind = "raise" THEN rest
                    ELSE Return(<<item.value>> \o rest.value)

\* the loop of DataFile.read_amazon_ion: a TypeError skips the line, any other
\* exception ends the call
RECURSIVE ion_dict_list(_)
ion_dict_list(lines) ==
    IF lines = <<>> THEN Return(<<>>)
    ELSE LET item == IonItemOf(Head(lines))
         IN IF item.kind = "raise" /\ item.exc.type # "TypeError" THEN item
            ELSE LET rest == ion_dict_list(Tail(lines))
                 IN IF rest.kind = "raise" THEN rest
                    ELSE IF item.kind = "raise" THEN rest
                    ELSE Return(<<item.value>> \o rest.value)

\* DataFile.read_amazon_ion
ReadAmazonIon ==
    /\ op = "ion"
    /\ result = NoResult
    /\ s3Calls' = Append(s3Calls, [api |-> "get_object", Bucket |-> arg.s3_bucket,
                                   Key |-> arg.s3_key])
    /\ \E found \in BOOLEAN :
          LET text == IF found THEN gzip_decompress(body) ELSE Raise(NoSuchKey)
          IN result' = IF text.kind = "return" THEN ion_dict_list(splitlines(text.value))
                       ELSE text
    /\ UNCHANGED <<op, ejob, edesc, body, arg, out, ddbCalls>>
    /\ objUnchanged

\* ------------------------------------------------------------------ import payload

\* the most records written in one call
MaxRecords == 3

\* the items a caller may write
Items == {"item-a", "item-b"}

\* the destinations a caller may name
Destinations ==
    {<<"s3:", "/", "/", "bucket", "/", "data.json.gz">>,
     <<"s3:", "/", "/", "bucket", "/", "p", "/", "data.json.gz">>,
     <<"s3:", "/", "/", "other", "/", "p", "/", "q", "/", "data.json.gz">>}

\* ITEM = "Item"
ITEM == "Item"

\* characters written as they are
Lit(chars) == [syntax |-> "literal", chars |-> chars]

\* dynamodb_json.dumps(record): the item in DynamoDB JSON
dynamodb_json_dumps(record) == [syntax |-> "dynamodb_json", item |-> record]

\* amazon_ion.dumps({ITEM: record}, binary=False)
amazon_ion_dumps(record) == [syntax |-> "ion", value |-> [ion |-> "struct", fields |-> [Item |-> record]]]

\* f'{{"{ITEM}": {dynamodb_json.dumps(record)}}}'
ItemLine(record) ==
    <<Lit("{\"" \o ITEM \o "\": "), dynamodb_json_dumps(record), Lit("}")>>

\* "\n".join(lines)
RECURSIVE Join(_)
Join(lines) ==
    IF lines = <<>> THEN <<>>
    ELSE IF Len(lines) = 1 THEN Head(lines)
    ELSE Head(lines) \o <<NL>> \o Join(Tail(lines))

\* the lines of write_dynamodb_json without the closing lines.append("")
JsonLines_open(records) == [i \in 1..Len(records) |-> ItemLine(records[i])]

\* the lines of write_dynamodb_json: one per record, then lines.append("")
JsonLines(records) == [i \in 1..Len(records) |-> ItemLine(records[i])] \o <<(<<>>)>>

\* parse_s3uri(s3uri): the bucket and the key of "s3://bucket/key"
parse_s3uri(s3uri) == split_s3_uri(s3uri)

\* what the object store may answer to put_object
PutResponses ==
    {[type |-> "ok"], ClientError("AccessDenied"), ConnectionError}

\* s3_client.put_object(...): the call made and what it gives
put_object(loc, content, content_type, resp) ==
    [calls |-> <<[api |-> "put_object", Bucket |-> loc.bucket, Key |-> loc.key,
                  Body |-> content, ContentType |-> content_type,
                  ContentEncoding |-> "gzip"]>>,
     result |-> IF resp.type = "ok" THEN Return([tag |-> "PutObjectOutput"])
                ELSE Raise(resp)]

\* write_dynamodb_json(records, s3uri, s3_client)
write_dynamodb_json(records, s3uri, resp) ==
    LET content == gzip_compress(Join(JsonLines(records)))
        loc == parse_s3uri(s3uri)
    IN IF loc.kind = "raise" THEN [calls |-> <<>>, result |-> loc]
       ELSE put_object(loc.value, content, "application/json", resp)

\* the statements of write_amazon_ion that follow its raise
write_amazon_ion_unreached(records, s3uri, resp) ==
    LET lines == [i \in 1..Len(records) |-> <<amazon_ion_dumps(records[i])>>] \o <<(<<>>)>>
        content == gzip_compress(Join(lines))
        loc == parse_s3uri(s3uri)
    IN IF loc.kind = "raise" THEN [calls |-> <<>>, result |-> loc]
       ELSE put_object(loc.value, content, "text/plain", resp)

\* write_amazon_ion(records, s3uri, s3_client): raise NotImplementedError(...)
write_amazon_ion(records, s3uri, resp) ==
    [calls |-> <<>>, result |-> Raise(NotImplementedError)]

\* a call of write_dynamodb_json
WriteDynamodbJson ==
    /\ op = "write"
    /\ \E resp \in PutResponses :
          LET w == write_dynamodb_json(arg.records, arg.s3uri, resp)
          IN /\ s3Calls' = s3Calls \o w.calls
             /\ result' = w.result
    /\ op' = "write_dynamodb_json"
    /\ UNCHANGED <<ejob, edesc, body, arg, out, ddbCalls>>
    /\ objUnchanged

\* a call of write_amazon_ion
WriteAmazonIon ==
    /\ op = "write"
    /\ \E resp \in PutResponses :
          LET w == write_amazon_ion(arg.records, arg.s3uri, resp)
          IN /\ s3Calls' = s3Calls \o w.calls
             /\ result' = w.result
    /\ op' = "write_amazon_ion"
    /\ UNCHANGED <<ejob, edesc, body, arg, out, ddbCalls>>
    /\ objUnchanged

\* ------------------------------------------------------------------ job records

\* the most calls to the table service made on behalf of one record
MaxDescribes == 1

\* the handles a caller may construct a record with
Handles ==
    {ExportArn,
     <<"arn:aws:dynamodb:us-east-1:111122223333:table", "/", "u", "/", "export", "/",
       "01700000000000-ffffffff">>}

\* ExportJob(...) / ImportJob(...) called by the user, with a prefix or without
NewJob ==
    /\ op = "job"
    /\ ejob = NoneRec
    /\ \E prefix \in Prefixes \cup {NoneText}, bucket \in {NoneStr, "bucket"},
          arn \in Handles :
          ejob' = IF kind = "import"
                  THEN ImportJob(arn, edesc.Status, NoneStr, bucket, prefix)
                  ELSE ExportJob(arn, edesc.Status, NoneStr, bucket, prefix,
                                 edesc.ExportFormat)
    /\ UNCHANGED <<op, edesc, body, arg, result, out, s3Calls, ddbCalls>>
    /\ objUnchanged

\* reading the properties s3uri_export_data, s3uri_export_manifest_files and
\* s3uri_export_manifest_summary of the record at hand
ReadLocations ==
    /\ op = "job"
    /\ kind = "export"
    /\ ejob # NoneRec
    /\ arg = NoneRec
    /\ arg' = [of |-> ejob,
               data |-> s3uri_export_data(ejob),
               manifest_files |-> s3uri_export_manifest_files(ejob),
               manifest_summary |-> s3uri_export_manifest_summary(ejob)]
    /\ UNCHANGED <<op, ejob, edesc, body, result, out, s3Calls, ddbCalls>>
    /\ objUnchanged

\* ExportJob.describe_export / ImportJob.describe_import: a new record, no
\* record, or an exception
DescribeJob ==
    /\ op = "job"
    /\ ddbCalls < MaxDescribes
    /\ \E resp \in DescribeAnswers(kind, edesc) :
          LET got == describe(kind, resp)
          IN /\ result' = got
             /\ ejob' = IF got.kind = "return" THEN got.value ELSE ejob
    /\ ddbCalls' = ddbCalls + 1
    /\ UNCHANGED <<op, edesc, body, arg, out, s3Calls>>
    /\ objUnchanged

\* ExportJob.get_details on the record at hand
GetDetails ==
    /\ op = "job"
    /\ kind = "export"
    /\ ejob # NoneRec
    /\ ddbCalls < MaxDescribes
    /\ \E resp \in DescribeAnswers(kind, edesc) :
          LET got == job_get_details(ejob, resp)
          IN /\ result' = IF got.kind = "return" THEN Return(NoneRec) ELSE got
             /\ ejob' = IF got.kind = "return" THEN got.value ELSE ejob
    /\ ddbCalls' = ddbCalls + 1
    /\ out' = Return(ejob)
    /\ UNCHANGED <<op, edesc, body, arg, s3Calls>>
    /\ objUnchanged

\* ------------------------------------------------------------------ items of an export

\* the most data files of an export
MaxFiles == 3

\* the names of the data files
FileName(i) == <<"a", "b", "c", "d", "e">>[i]

\* the per-file manifest that lists the files `order[1]`, `order[2]`, ...
ManifestOf(order) ==
    IF order = <<>> THEN <<>>
    ELSE Join([i \in 1..Len(order) |->
                 <<JsonText(ManifestEntry(FileName(order[i]), order[i]))>>])

\* the listings of the first n files, in ascending or in descending order
FileOrders(n) == {[i \in 1..n |-> i], [i \in 1..n |-> n + 1 - i]}

\* the texts of a data file for each reader: no line, one record, two records
\* (for Ion with a scalar between them), and a line that does not parse
DataTexts(reader) ==
    IF reader = "ion"
    THEN {<<>>,
          <<IonText([ion |-> "struct", fields |-> [Item |-> "item-a"]]), NL>>,
          <<IonText([ion |-> "struct", fields |-> [Item |-> "item-b"]]), NL,
            IonText([ion |-> "int"]), NL,
            IonText([ion |-> "struct", fields |-> [Item |-> "item-a"]]), NL>>,
          <<BadJson, NL>>}
    ELSE {<<>>,
          <<JsonText([Item |-> "item-a"]), NL>>,
          <<JsonText([Item |-> "item-b"]), NL, JsonText([Item |-> "item-a"]), NL>>,
          <<BadJson, NL>>}

\* json.loads(line)["Item"]
JsonItemOf(line) ==
    LET data == json_loads(line)
    IN IF data.kind = "raise" THEN data
       ELSE IF "Item" \in DOMAIN data.value THEN Return(data.value["Item"])
       ELSE Raise(KeyError)

\* [json.loads(line)["Item"] for line in lines]
RECURSIVE json_item_list(_)
json_item_list(lines) ==
    IF lines = <<>> THEN Return(<<>>)
    ELSE LET item == JsonItemOf(Head(lines))
         IN IF item.kind = "raise" THEN item
            ELSE LET rest == json_item_list(Tail(lines))
                 IN IF rest.kind = "raise" THEN rest
                    ELSE Return(<<item.value>> \o rest.value)

\* the object of a data file in the bucket
DataObject(file) == body.data[file.s3_key[Len(file.s3_key)]]

\* DataFile.read_dynamodb_json / DataFile.read_amazon_ion: the get_object call
\* and the list of items, or the exception
ReadDataFile(reader, file) ==
    LET text == gzip_decompress(DataObject(file))
    IN [calls |-> <<[api |-> "get_object", Bucket |-> file.s3_bucket,
                     Key |-> file.s3_key]>>,
        result |-> IF text.kind = "raise" THEN text
                   ELSE IF reader = "ion" THEN ion_dict_list(splitlines(text.value))
                   ELSE json_item_list(splitlines(text.value))]

StopIteration == [type |-> "StopIteration", code |-> "", message |-> ""]

\* a loop that fetches the next file while items of this one are still to come
NextFileDue_early(pending) == Len(pending) <= 2

\* "for item in data_file.read_...()" is exhausted: the outer loop goes on
NextFileDue(pending) == pending = <<>>

\* the generator runs on from "for data_file in data_file_list" until it
\* yields an item, ends, or raises
RECURSIVE Resume(_, _, _, _)
Resume(reader, files, pending, made) ==
    IF NextFileDue(pending) /\ files # <<>>
    THEN LET read == ReadDataFile(reader, Head(files))
         IN IF read.result.kind = "raise"
            THEN [result |-> read.result, calls |-> made \o read.calls,
                  frame |-> [reader |-> reader, pc |-> "failed", files |-> <<>>,
                             pending |-> <<>>]]
            ELSE Resume(reader, Tail(files), pending \o read.result.value,
                        made \o read.calls)
    ELSE IF pending # <<>>
    THEN [result |-> Return(Head(pending)), calls |-> made,
          frame |-> [reader |-> reader, pc |-> "suspended", files |-> files,
                     pending |-> Tail(pending)]]
    ELSE [result |-> Raise(StopIteration), calls |-> made,
          frame |-> [reader |-> reader, pc |-> "finished", files |-> <<>>,
                     pending |-> <<>>]]

\* next() on the generator of ExportJob.read_dynamodb_json / read_amazon_ion
StreamNext ==
    /\ op = "stream"
    /\ result # Raise(StopIteration)
    /\ \E resp \in DescribeAnswers(kind, edesc) :
          IF arg.pc = "created"
          THEN LET f == Fetch(ejob, resp, "files", body.hasFiles)
                   list == IF f.got.kind = "return"
                           THEN data_file_list(splitlines(f.got.value), f.bucket, f.job)
                           ELSE f.got
                   run == IF list.kind = "return"
                          THEN Resume(arg.reader, list.value, <<>>, <<>>)
                          ELSE [result |-> list, calls |-> <<>>,
                                frame |-> [arg EXCEPT !.pc = "failed"]]
               IN /\ ejob' = f.job
                  /\ ddbCalls' = ddbCalls + f.described
                  /\ s3Calls' = s3Calls \o f.calls \o run.calls
                  /\ result' = run.result
                  /\ arg' = run.frame
          ELSE IF arg.pc = "suspended"
          THEN LET run == Resume(arg.reader, arg.files, arg.pending, <<>>)
               IN /\ s3Calls' = s3Calls \o run.calls
                  /\ result' = run.result
                  /\ arg' = run.frame
                  /\ UNCHANGED <<ejob, ddbCalls>>
          ELSE /\ result' = Raise(StopIteration)
               /\ UNCHANGED <<ejob, ddbCalls, s3Calls, arg>>
    /\ out' = IF result'.kind = "return" THEN Append(out, result'.value) ELSE out
    /\ UNCHANGED <<op, edesc, body>>
    /\ objUnchanged

\* no record, manifest or data file is in use
ObjectsIdle ==
    /\ op = "idle"
    /\ ejob = NoneRec
    /\ edesc = NoneRec
    /\ body = <<>>
    /\ arg = NoneRec
    /\ result = [kind |-> "none", value |-> NoneRec, exc |-> NoExc]
    /\ out = [kind |-> "none", value |-> NoneRec, exc |-> NoExc]
    /\ s3Calls = <<>>
    /\ ddbCalls = 0

\* no Waiter is running
WaiterIdle ==
    /\ delays = 1
    /\ timeout = 0
    /\ instant = TRUE
    /\ pc = "idle"
    /\ now = 0
    /\ k = 1
    /\ attempt = 0
    /\ elapsed = 0
    /\ slept = -1
    /\ sleeps = 0
    /\ yieldAt = -1
    /\ prevYieldAt = -1
    /\ stall = 0
    /\ ideal = TRUE
    /\ svcStatus = "IN_PROGRESS"
    /\ svcMessage = NoneStr
    /\ describeCalls = 0
    /\ inProgressSeen = 0
    /\ lastResp = NoResp
    /\ lastDescribe = Return(NoneRec)
    /\ outcome = "running"
    /\ retval = NoneRec
    /\ exc = NoExc

\* one round of "while 1" up to the paged call: res = client.list_exports(**kwargs)
ListCall ==
    /\ lpc = "call"
    /\ LET res == ListResponse(jobs, eagerToken, next_token, page_size)
       IN /\ page' = res.summaries
          /\ respToken' = res.token
          /\ calls' = Append(calls, [sent |-> next_token, got |-> res.token,
                                     have |-> Len(exports)])
    /\ lpc' = "entries"
    /\ UNCHANGED <<jobs, eagerToken, page_size, max_results, get_details, next_token,
                   exports, listDescribes, vanished, lres, lexc>>
    /\ UNCHANGED <<waitVars, objVars>>

\* what the describe of one entry may be answered; at most MaxVanished jobs
\* become unknown to the service while the listing runs
EntryResponses(dct) ==
    {r \in ServiceResponses(kind, dct.Arn, dct.Status, JobMessageOf(kind, dct.Index)) :
        (r.type = "ClientError" /\ r.code = NotFoundCode(kind)) => vanished < MaxVanished}

\* one round of "for dct in res.get(...)": make the record, append it, and
\* return when max_results records are collected
ListEntry ==
    /\ lpc = "entries"
    /\ page # <<>>
    /\ LET dct == Head(page)
       IN \E resp \in (IF get_details THEN EntryResponses(dct) ELSE {NoResp}) :
            LET got == IF get_details THEN describe(kind, resp)
                       ELSE Return(ThinJob(kind, dct.Arn, dct.Status))
            IN /\ listDescribes' = IF get_details THEN listDescribes + 1 ELSE listDescribes
               /\ IF got.kind = "raise"
                  THEN /\ lres' = "raised"
                       /\ lexc' = got.exc
                       /\ lpc' = "done"
                       /\ UNCHANGED <<exports, page, vanished>>
                  ELSE /\ exports' = Append(exports, got.value)
                       /\ vanished' = IF got.value = NoneRec THEN vanished + 1 ELSE vanished
                       /\ page' = Tail(page)
                       /\ IF ReachedMax(Len(exports) + 1, max_results)
                          THEN lres' = "returned" /\ lpc' = "done"
                          ELSE UNCHANGED <<lres, lpc>>
                       /\ UNCHANGED lexc
    /\ UNCHANGED <<jobs, eagerToken, page_size, max_results, get_details, next_token,
                   respToken, calls>>
    /\ UNCHANGED <<waitVars, objVars>>

\* the end of a round of "while 1": follow the NextToken, or break and return
ListPageEnd ==
    /\ lpc = "entries"
    /\ page = <<>>
    /\ IF respToken = NoToken
       THEN /\ lres' = "returned"
            /\ lpc' = "done"
            /\ UNCHANGED next_token
       ELSE /\ next_token' = respToken
            /\ lpc' = "call"
            /\ UNCHANGED lres
    /\ UNCHANGED <<jobs, eagerToken, page_size, max_results, get_details, page,
                   respToken, exports, calls, listDescribes, vanished, lexc>>
    /\ UNCHANGED <<waitVars, objVars>>

\* ------------------------------------------------------------------ specifications

\* the Waiter driven by a plain loop
InitPlain == InitWaiter({"plain"}) /\ ListingIdle /\ ObjectsIdle
NextPlain == WaiterStart \/ WaiterTimeout \/ WaiterSleep \/ ConsumerBody \/ ConsumerBreak
SpecWaiter == InitPlain /\ [][NextPlain]_vars

\* wait_until_complete of an export or an import job
InitWait == InitWaiter({"export", "import"}) /\ ListingIdle /\ ObjectsIdle
NextWait == WaiterStart \/ WaiterTimeout \/ WaiterSleep \/ WaitBody \/ ServiceAdvance
SpecWait == InitWait /\ [][NextWait]_vars

\* the steps of the waiting thread itself: it is never suspended for ever, and
\* BodyTimes makes its clock advance after MaxSameInstant rounds at one instant
WaitStep == WaiterStart \/ WaiterTimeout \/ WaiterSleep \/ WaitBody
LiveWait == InitWait /\ [][NextWait]_vars /\ WF_vars(WaitStep)

\* list_exports / list_imports
InitList == InitListing({"export", "import"}) /\ WaiterIdle /\ ObjectsIdle
NextList == ListCall \/ ListEntry \/ ListPageEnd
SpecList == InitList /\ [][NextList]_vars

\* ExportJob.get_manifest_summary, and to_dict of what it returns
InitSummary ==
    /\ InitObject("summary", {<<JsonText(d), NL>> : d \in ValidDocs \cup UnknownTagDocs}
                                \cup {<<BadJson>>}, {NoneRec})
    /\ edesc.Status = "COMPLETED"
    /\ edesc.ExportFormat = "DYNAMODB_JSON"
    /\ edesc.S3Prefix \in {NoneText, <<"p">>}
    /\ ListingIdle /\ WaiterIdle
NextSummary == GetManifestSummary \/ SummaryToDict
SpecSummary == InitSummary /\ [][NextSummary]_vars

\* ExportJob.get_data_files
InitFiles ==
    /\ InitObject("files", Manifests, {NoneRec})
    /\ edesc.Status = "COMPLETED"
    /\ edesc.S3Prefix \in {NoneText, <<"p">>, <<"p", "/">>}
    /\ ListingIdle /\ WaiterIdle
NextFiles == GetDataFiles
SpecFiles == InitFiles /\ [][NextFiles]_vars

\* DataFile.read_amazon_ion
InitIon ==
    /\ InitObject("ion",
                  {Bytes(e, t) : e \in {"gzip", "identity"}, t \in IonDataTexts},
                  {DataFileOf(ManifestEntry(n, 1), <<"bucket">>,
                              [arn |-> ExportArn, export_format |-> "ION"]).value :
                      n \in {"a", "b"}})
    /\ edesc.Status = "COMPLETED"
    /\ edesc.ExportFormat = "ION"
    /\ edesc.S3Prefix = <<"p", "/">>
    /\ ejob = from_export_description(edesc)
    /\ ListingIdle /\ WaiterIdle
NextIon == ReadAmazonIon
SpecIon == InitIon /\ [][NextIon]_vars

\* write_dynamodb_json and write_amazon_ion
InitWrite ==
    /\ op = "write"
    /\ kind = "import"
    /\ ejob = NoneRec
    /\ edesc = NoneRec
    /\ body = <<>>
    /\ arg \in [records : UNION {[1..n -> Items] : n \in 0..MaxRecords},
                 s3uri : Destinations]
    /\ result = NoResult
    /\ out = NoResult
    /\ s3Calls = <<>>
    /\ ddbCalls = 0
    /\ ListingIdle /\ WaiterIdle
NextWrite == WriteDynamodbJson \/ WriteAmazonIon
SpecWrite == InitWrite /\ [][NextWrite]_vars

\* the records of one export or import job
InitJob ==
    /\ op = "job"
    /\ kind \in {"export", "import"}
    /\ edesc \in Descriptions(kind)
    /\ edesc.Status = "COMPLETED"
    /\ edesc.ExportFormat = "DYNAMODB_JSON"
    /\ ejob = NoneRec
    /\ body = <<>>
    /\ arg = NoneRec
    /\ result = NoResult
    /\ out = NoResult
    /\ s3Calls = <<>>
    /\ ddbCalls = 0
    /\ ListingIdle /\ WaiterIdle
NextJob == NewJob \/ DescribeJob \/ GetDetails \/ ReadLocations
SpecJob == InitJob /\ [][NextJob]_vars

\* a sequence of get_manifest_summary and get_data_files on one record
InitReads ==
    /\ InitObject("reads",
                  {[summary |-> <<JsonText(d), NL>>, files |-> m] :
                      d \in DocsOf(FullKeys, "FULL_EXPORT"),
                      m \in {<<>>, <<BadJson>>,
                             <<JsonText(ManifestEntry("a", 1)), NL,
                               JsonText(ManifestEntry("b", 2)), NL>>}},
                  {NoneRec})
    /\ body.summary[1].data["itemCount"] = 2
    /\ body.summary[1].data["s3SseKmsKeyId"] = NoneStr
    /\ body.summary[1].data["s3SseAlgorithm"] = "AES256"
    /\ body.summary[1].data["outputFormat"] = "DYNAMODB_JSON"
    /\ edesc.ExportFormat = "DYNAMODB_JSON"
    /\ edesc.S3Prefix = <<"p">>
    /\ ListingIdle /\ WaiterIdle
NextReads == GetManifestSummary \/ GetDataFiles \/ ExportCompletes
SpecReads == InitReads /\ [][NextReads]_vars

\* the generators ExportJob.read_dynamodb_json and ExportJob.read_amazon_ion
InitStream ==
    /\ op = "stream"
    /\ kind = "export"
    /\ \E reader \in {"dynamodb_json", "ion"} :
          /\ arg = [reader |-> reader, pc |-> "created", files |-> <<>>, pending |-> <<>>]
          /\ \E n \in 0..MaxFiles :
                body \in [files : {ManifestOf(o) : o \in FileOrders(n)},
                          hasFiles : BOOLEAN,
                          data : [{FileName(i) \o ".json.gz" : i \in 1..MaxFiles} ->
                                    {gzip_compress(t) : t \in DataTexts(reader)}]]
          /\ edesc \in Descriptions(kind)
          /\ edesc.ExportFormat = (IF reader = "ion" THEN "ION" ELSE "DYNAMODB_JSON")
    /\ edesc.Status = "COMPLETED"
    /\ edesc.S3Prefix = <<"p">>
    /\ ejob \in RecordsOf(kind, edesc)
    /\ result = NoResult
    /\ out = <<>>
    /\ s3Calls = <<>>
    /\ ddbCalls = 0
    /\ ListingIdle /\ WaiterIdle
NextStream == StreamNext
SpecStream == InitStream /\ [][NextStream]_vars

\* ------------------------------------------------------------------ claims

\* the last describe call of the wait was answered with a job description
Described == lastResp.type = "ok"
ObservedStatus == lastResp.desc.Status

\* the record carries what the description says
BuiltFrom(job, desc) ==
    /\ job # NoneRec
    /\ job.arn = desc.Arn
    /\ job.status = desc.Status
    /\ job.failure_message = desc.FailureMessage
    /\ job.s3_bucket = desc.S3Bucket

JobFailed == outcome = "raised" /\ exc.type = "ValueError" /\ exc # SleepValueError
TimeoutRaised == outcome = "raised" /\ exc = TimeoutError

\* C1: wait_until_complete returns when, and only when, a describe reports
\* COMPLETED: after k describes that reported IN_PROGRESS it has made exactly
\* k+1 describe calls and returns the record of the last one, whose status is
\* COMPLETED; the Waiter raises Timeout only once the deadline has passed.
C1_ReturnsCompletedRecord ==
    /\ outcome = "returned" =>
          /\ Described
          /\ BuiltFrom(retval, lastResp.desc)
          /\ retval.status = "COMPLETED"
          /\ describeCalls = inProgressSeen + 1
    /\ (Described /\ ObservedStatus = "COMPLETED") => outcome = "returned"
    /\ TimeoutRaised => now > Deadline

C1_Witness ==
    /\ outcome = "returned"
    /\ inProgressSeen = 2
    /\ describeCalls = 3

\* the terminal statuses that are no success
TerminalFailure(knd) == IF knd = "import" THEN {"FAILED", "CANCELLED"} ELSE {"FAILED"}

\* C2: when a describe reports a terminal non-success status, that describe
\* is the last one: the wait is over, it raised the job-failed error with the
\* failure message of that description, and it returned no record.
C2_TerminalFailureRaises ==
    (Described /\ ObservedStatus \in TerminalFailure(kind)) =>
        /\ pc = "done"
        /\ JobFailed
        /\ exc.message = Str(lastResp.desc.FailureMessage)
        /\ lastResp.desc.FailureMessage \in Messages =>
               exc.message = lastResp.desc.FailureMessage
        /\ retval = NoneRec

C2_Witness ==
    /\ JobFailed
    /\ kind = "export"
    /\ ObservedStatus = "FAILED"
    /\ exc.message = "disk full"
    /\ describeCalls >= 2

\* the wait went on after the last describe: it is still polling, or the
\* Waiter timed out at a later attempt
WentOn == outcome = "running" \/ TimeoutRaised

\* C3 as stated: the import wait raises the job-failed error only on FAILED
\* or CANCELLED, and goes on to the next attempt on IN_PROGRESS and CANCELLING.
C3_Original ==
    (kind = "import" /\ Described) =>
        /\ JobFailed => ObservedStatus \in {"FAILED", "CANCELLED"}
        /\ ObservedStatus \in {"IN_PROGRESS", "CANCELLING"} => WentOn

\* C3 as amended: the import wait raises the job-failed error exactly when
\* the observed status is FAILED, CANCELLED or CANCELLING, and goes on to the
\* next attempt when it is IN_PROGRESS.
C3_RaisesOnCancellingToo ==
    (kind = "import" /\ Described) =>
        /\ JobFailed <=> ObservedStatus \in {"FAILED", "CANCELLED", "CANCELLING"}
        /\ ObservedStatus = "IN_PROGRESS" => WentOn

C3_Witness ==
    /\ kind = "import"
    /\ Described
    /\ ObservedStatus = "CANCELLING"
    /\ JobFailed
    /\ inProgressSeen >= 1

\* C4: if every describe reports IN_PROGRESS, the wait ends by raising the
\* Waiter's TimeoutError, which reaches the caller as it is.
C4_TimesOut ==
    [](describeCalls = inProgressSeen) => <>(TimeoutRaised /\ pc = "done")

C4_Witness ==
    /\ TimeoutRaised
    /\ describeCalls = inProgressSeen
    /\ describeCalls >= 3

\* Waiter(delays=10, timeout=25, instant=True)
Args_10_25 == delays = 10 /\ timeout = 25 /\ instant

Sec(n) == n * TicksPerSec

\* C5 as stated: with delays=10, timeout=25, instant and a body that takes no
\* time, attempts are yielded at 0, 10 and 20 seconds and no fourth attempt
\* is yielded.
C5_Original ==
    (Args_10_25 /\ ideal) =>
        /\ attempt = 1 => (yieldAt = 0 /\ elapsed = 0)
        /\ attempt = 2 => (yieldAt = Sec(10) /\ elapsed = 10)
        /\ attempt = 3 => (yieldAt = Sec(20) /\ elapsed = 20)
        /\ attempt <= 3

\* C5 as amended: attempts 1, 2, 3 are yielded at 0, 10 and 20 seconds, and
\* a fourth attempt is yielded at the deadline, 25 seconds, after a sleep cut
\* to the 5 seconds remaining; TimeoutError is raised only by a round that
\* starts after the deadline, so not before the fourth attempt.
C5_FourthAttemptAtDeadline ==
    /\ (Args_10_25 /\ ideal) =>
          /\ attempt = 1 => (yieldAt = 0 /\ elapsed = 0)
          /\ attempt = 2 => (yieldAt = Sec(10) /\ elapsed = 10 /\ slept = Sec(10))
          /\ attempt = 3 => (yieldAt = Sec(20) /\ elapsed = 20 /\ slept = Sec(10))
          /\ attempt = 4 => (yieldAt = Sec(25) /\ slept = Sec(5))
          /\ ~TimeoutRaised
    /\ (Args_10_25 /\ TimeoutRaised) => now > Deadline

C5_Witness ==
    /\ Args_10_25
    /\ ideal
    /\ attempt = 4
    /\ pc = "body"

\* Waiter(instant=False) with a timeout shorter than one delay
ShortTimeout == ~instant /\ timeout < delays

\* C6 as stated: with instant=False and timeout < delay no attempt is yielded.
C6_Original == ShortTimeout => attempt = 0

\* C6 as amended: the first sleep is cut to the timeout and does not
\* overshoot by itself; attempt 1 is yielded at the deadline, and TimeoutError
\* is raised only by a later round that starts after the deadline.
C6_FirstAttemptAtDeadline ==
    ShortTimeout =>
        /\ attempt = 1 => (slept = Deadline /\ yieldAt >= Deadline)
        /\ ideal /\ attempt = 1 => yieldAt = Deadline
        /\ TimeoutRaised => (attempt >= 1 /\ now > Deadline)

C6_Witness ==
    /\ ShortTimeout
    /\ attempt = 1
    /\ pc = "body"
    /\ ideal

\* C7: between two successive yields the Waiter sleeps for a strictly
\* positive duration, so that a body that takes no time is never handed two
\* attempts at the same instant.
C7_Original ==
    prevYieldAt >= 0 =>
        /\ slept > 0
        /\ ideal => yieldAt > prevYieldAt

\* the last describe was answered with the not-found error
NotFoundAnswer == lastResp.type = "ClientError" /\ lastResp.code = NotFoundCode(kind)

\* C8: describe_export / describe_import return None, and raise nothing, when
\* the service answers with the not-found error, and return the record built
\* from the description when the service answers with one.
C8_NotFoundIsNone ==
    /\ NotFoundAnswer => lastDescribe = Return(NoneRec)
    /\ lastResp.type = "ok" =>
          /\ lastDescribe.kind = "return"
          /\ lastDescribe.exc = NoExc
          /\ BuiltFrom(lastDescribe.value, lastResp.desc)

C8_Witness ==
    /\ kind = "export"
    /\ describeCalls >= 1
    /\ NotFoundAnswer
    /\ lastDescribe.kind = "return"
    /\ lastDescribe.value = NoneRec

\* C9: every service error but not-found that the describe call raises
\* reaches the caller of describe_export / describe_import as it is.
C9_Original ==
    (lastResp.type \notin {"none", "ok"} /\ ~NotFoundAnswer) =>
        lastDescribe = Raise(lastResp)

\* C10: the listing returns exactly the first min(N, max_results) jobs of the
\* service, in the service's order, and never more than max_results records.
C10_Original ==
    lres = "returned" =>
        /\ Len(exports) = Min(Len(jobs), max_results)
        /\ Len(exports) <= max_results
        /\ \A i \in 1..Len(exports) :
              exports[i] # NoneRec => exports[i].arn = jobs[i].Arn

\* the record carries a handle and a status and nothing else
IsThin(job) ==
    /\ job # NoneRec
    /\ job.failure_message = NoneStr
    /\ job.s3_bucket = NoneStr
    /\ job.s3_prefix = NoneText
    /\ job.tag = "ExportJob" => job.export_format = NoneStr

\* C11: without get_details the listing makes no describe call and returns
\* thin records of the listed handle and status; with get_details it makes
\* exactly one describe call per record it has collected.
C11_DescribePerEntry ==
    lres # "raised" =>
        IF get_details
        THEN listDescribes = Len(exports)
        ELSE /\ listDescribes = 0
             /\ \A i \in 1..Len(exports) :
                   /\ IsThin(exports[i])
                   /\ exports[i].arn = jobs[i].Arn
                   /\ exports[i].status = jobs[i].Status

C11_Witness ==
    /\ lres = "returned"
    /\ ~get_details
    /\ Len(exports) = 3
    /\ Len(calls) = 2


\* the summary document was read and parsed
SummaryRead == op = "summary" /\ result.kind = "return"

\* C12: for every valid summary document of either variant, from_dict followed
\* by to_dict gives back a document with the same keys and the same values.
C12_SummaryRoundTrip ==
    (/\ SummaryRead
     /\ body[1].data["exportType"] \in ExportTypeEnum
     /\ out # NoResult)
        => /\ out.kind = "return"
           /\ DOMAIN out.value = DOMAIN body[1].data
           /\ \A key \in DOMAIN body[1].data : out.value[key] = body[1].data[key]

C12_Witness ==
    /\ SummaryRead
    /\ out.kind = "return"
    /\ body[1].data["exportType"] = "INCREMENTAL_EXPORT"
    /\ body[1].data["s3SseKmsKeyId"] = "kms-key-1"
    /\ ddbCalls = 1

\* C13: get_manifest_summary on a document whose exportType is neither
\* FULL_EXPORT nor INCREMENTAL_EXPORT raises and returns no ManifestSummary.
C13_Original ==
    (/\ op = "summary"
     /\ body[1] # BadJson
     /\ body[1].data["exportType"] \notin ExportTypeEnum
     /\ result # NoResult)
        => result.kind = "raise"

\* the lines of the manifest at hand, and those that are no JSON
ManifestLines == splitlines(body)
MalformedLines == {i \in 1..Len(ManifestLines) : json_loads(ManifestLines[i]).kind = "raise"}

\* C14: get_data_files returns one DataFile per line of the per-file manifest,
\* in line order, each with the line's itemCount, md5Checksum, etag and
\* dataFileS3Key and with the job's bucket, handle and export format.
C14_OneDataFilePerLine ==
    (op = "files" /\ result.kind = "return")
        => /\ Len(result.value) = Len(ManifestLines)
           /\ \A i \in 1..Len(ManifestLines) :
                LET data == json_loads(ManifestLines[i]).value
                    file == result.value[i]
                IN /\ file.item_count = data["itemCount"]
                   /\ file.md5 = data["md5Checksum"]
                   /\ file.etag = data["etag"]
                   /\ file.s3_key = data["dataFileS3Key"]
                   /\ file.s3_bucket = <<ejob.s3_bucket>>
                   /\ file.export_arn = ejob.arn
                   /\ file.export_format = ejob.export_format

C14_Witness ==
    /\ op = "files"
    /\ result.kind = "return"
    /\ Len(result.value) = 2
    /\ result.value[1].etag = "etag-b"
    /\ result.value[2].etag = "etag-a"
    /\ result.value[1].export_format = "ION"
    /\ ddbCalls = 1

\* C15: when any line of the per-file manifest is malformed JSON, wherever it
\* stands, get_data_files fails and returns no list of DataFile at all.
C15_AllOrNothing ==
    (op = "files" /\ result # NoResult /\ MalformedLines # {})
        => result.kind = "raise"

C15_Witness ==
    /\ op = "files"
    /\ result.kind = "raise"
    /\ result.exc.type = "JSONDecodeError"
    /\ MalformedLines = {2}
    /\ Len(ManifestLines) = 2

\* C16: when a line of the per-file manifest is malformed JSON, the error of
\* get_data_files is a CorruptManifest that tells the index of that line.
C16_Original ==
    (/\ op = "files"
     /\ result.kind = "raise"
     /\ MalformedLines # {}
     /\ result.exc.type \notin {"ClientError", "EndpointConnectionError", "AttributeError",
                                "KeyError"})
        => /\ result.exc.type = "CorruptManifest"
           /\ result.exc.line \in MalformedLines

\* the lines of the data file at hand, and those whose decoding gives an item
IonLines == splitlines(body.text)
DecodedLines == SelectSeq(IonLines, LAMBDA line : IonItemOf(line).kind = "return")
TypeErrorLines ==
    {i \in 1..Len(IonLines) :
        IonItemOf(IonLines[i]) = Raise(TypeError)}

\* C17: read_amazon_ion returns the items of the lines that decode without a
\* TypeError, in line order; lines that raise TypeError are skipped and do not
\* make the call fail.
C17_SkipsTypeErrorLines ==
    (op = "ion" /\ result # NoResult)
        => /\ result.kind = "return" =>
                /\ Len(result.value) = Len(DecodedLines)
                /\ \A i \in 1..Len(DecodedLines) :
                      result.value[i] = IonItemOf(DecodedLines[i]).value
           /\ result.kind = "raise" => result.exc # TypeError
           /\ (/\ Len(s3Calls) = 1
               /\ result.kind = "raise"
               /\ result.exc.type \notin {"ClientError", "BadGzipFile"})
                 => Len(DecodedLines) + Cardinality(TypeErrorLines) < Len(IonLines)

C17_Witness ==
    /\ op = "ion"
    /\ Len(IonLines) = 2
    /\ IonItemOf(IonLines[1]).kind = "return"
    /\ TypeErrorLines = {2}
    /\ IonLines[2] = <<IonText([ion |-> "int"])>>
    /\ result.kind = "return"
    /\ Len(result.value) = 1

\* the text that the one put_object carried, decompressed
WrittenText == gzip_decompress(s3Calls[1].Body).value

\* C18: write_dynamodb_json makes exactly one put_object call, to the bucket and
\* key of the destination URI and with ContentEncoding gzip; the decompressed
\* body has one line per record, in order, each {"Item": <item>} and each
\* ended by a line feed.
C18_OneGzipJsonLinesObject ==
    op = "write_dynamodb_json"
        => /\ Len(s3Calls) = 1
           /\ s3Calls[1].api = "put_object"
           /\ <<"s3:", "/", "/">> \o s3Calls[1].Bucket \o <<"/">> \o s3Calls[1].Key
                = arg.s3uri
           /\ Slashes(s3Calls[1].Bucket) = {}
           /\ s3Calls[1].ContentEncoding = "gzip"
           /\ s3Calls[1].Body.encoding = "gzip"
           /\ Len(splitlines(WrittenText)) = Len(arg.records)
           /\ \A i \in 1..Len(arg.records) :
                splitlines(WrittenText)[i]
                    = <<Lit("{\"Item\": "), dynamodb_json_dumps(arg.records[i]), Lit("}")>>
           /\ Cardinality({i \in 1..Len(WrittenText) : WrittenText[i] = NL})
                = Len(arg.records)
           /\ arg.records # <<>> => WrittenText[Len(WrittenText)] = NL

C18_Witness ==
    /\ op = "write_dynamodb_json"
    /\ arg.records = <<"item-b", "item-a", "item-b">>
    /\ Len(s3Calls[1].Key) = 5
    /\ result.kind = "return"

\* C19: write_amazon_ion raises the unsupported-operation error for every
\* input, and no call to the object store is made by it.
C19_AlwaysUnsupported ==
    op = "write_amazon_ion"
        => /\ result = Raise(NotImplementedError)
           /\ s3Calls = <<>>

C19_Witness ==
    /\ op = "write_amazon_ion"
    /\ Len(arg.records) = 2
    /\ result.kind = "raise"

\* the record at hand with the prefix as the service or the caller gave it
RawJob == [ejob EXCEPT !.s3_prefix = edesc.S3Prefix]

\* C20: every ExportJob / ImportJob whose s3_prefix is set has an s3_prefix that
\* ends with "/", after construction and after get_details; normalising a
\* prefix that ends with "/" changes nothing, so twice is the same as once.
C20_PrefixEndsWithSlash ==
    (op = "job" /\ ejob # NoneRec)
        => /\ ejob.s3_prefix # NoneText => EndsWith(ejob.s3_prefix, "/")
           /\ post_init(ejob) = ejob
           /\ post_init(post_init(RawJob)) = post_init(RawJob)
           /\ (RawJob.s3_prefix # NoneText /\ EndsWith(RawJob.s3_prefix, "/"))
                => post_init(RawJob) = RawJob

C20_Witness ==
    /\ op = "job"
    /\ kind = "export"
    /\ out.kind = "return"
    /\ out.value.s3_prefix = <<"/">>
    /\ edesc.S3Prefix = <<"/", "p">>
    /\ result = Return(NoneRec)
    /\ ejob.s3_prefix = <<"/", "p", "/">>

\* the last "/"-separated segment of a handle
FinalSegment(h) == IF h[Len(h)] = "/" THEN <<>> ELSE <<h[Len(h)]>>

\* s3://b/p of a record with bucket b and prefix p
UnderPrefix(job) == <<"s3:", "/", "/", job.s3_bucket, "/">> \o job.s3_prefix

\* C21: for an export record with bucket b, normalised prefix p and handle h the
\* data directory, the per-file manifest and the summary manifest are s3://b/p
\* followed by AWSDynamoDB/<short-id>/data/, .../manifest-files.json and
\* .../manifest-summary.json, <short-id> being the last segment of h; reading
\* them makes no call.
C21_Locations ==
    (/\ op = "job"
     /\ arg # NoneRec
     /\ arg.of.s3_bucket # NoneStr
     /\ arg.of.s3_prefix # NoneText)
        => LET root == UnderPrefix(arg.of) \o <<"AWSDynamoDB", "/">>
                            \o FinalSegment(arg.of.arn) \o <<"/">>
           IN /\ arg.data = root \o <<"data", "/">>
              /\ arg.manifest_files = root \o <<"manifest-files.json">>
              /\ arg.manifest_summary = root \o <<"manifest-summary.json">>
              /\ s3Calls = <<>>
              /\ ddbCalls = 0 => result = NoResult

C21_Witness ==
    /\ op = "job"
    /\ arg # NoneRec
    /\ arg.of.arn # ExportArn
    /\ arg.of.s3_prefix = <<"p", "/">>
    /\ arg.data = <<"s3:", "/", "/", "bucket", "/", "p", "/", "AWSDynamoDB", "/",
                    "01700000000000-ffffffff", "/", "data", "/">>

\* C22: the attempts yielded are numbered 1, 2, 3, ... with instant set or not;
\* with instant the first yield is (1, 0) and no sleep comes before it, without
\* instant a sleep comes before attempt 1; every later yield follows one more
\* sleep.
C22_SequenceShape ==
    /\ [](attempt >= 1 =>
            /\ sleeps = attempt - (IF instant THEN 1 ELSE 0)
            /\ (instant /\ attempt = 1) => (elapsed = 0 /\ slept = -1))
    /\ [][/\ attempt' \in {attempt, attempt + 1}
          /\ attempt' = attempt + 1 =>
                /\ pc' = "body"
                /\ sleeps' = (IF instant /\ attempt = 0 THEN sleeps ELSE sleeps + 1)]_vars

C22_Witness ==
    /\ kind = "plain"
    /\ ~instant
    /\ attempt = 3
    /\ sleeps = 3
    /\ pc = "body"

\* C23: no paged call is made once max_results records are collected, nor
\* after a response without a continuation token; every call but the first
\* sends the token of the response before it; page_size 2 and max_results 5
\* over 7 jobs take exactly 3 calls.
C23_Original ==
    /\ \A i \in 1..Len(calls) :
          /\ calls[i].have < max_results
          /\ i = 1 => calls[i].sent = NoToken
          /\ i > 1 => (calls[i - 1].got # NoToken /\ calls[i].sent = calls[i - 1].got)
    /\ (/\ lres = "returned"
        /\ page_size = 2
        /\ max_results = 5
        /\ Len(jobs) = 7)
          => Len(calls) = 3

\* C24 as stated: get_manifest_summary and get_data_files call describe once
\* when the record is thin and not at all when it is detailed, a detailed
\* record is never refreshed, and over any sequence of manifest reads on one
\* record at most one describe call is made.
C24_Original ==
    (op = "reads" /\ arg # NoneRec)
        => /\ ddbCalls - arg.ddbBefore = (IF needs_details(arg.before) THEN 1 ELSE 0)
           /\ ~needs_details(arg.before) => ejob = arg.before
           /\ ddbCalls <= 1

\* C24: a manifest read calls describe exactly once when the record is thin at
\* that time and not at all when it is detailed; a detailed record is never
\* changed by a read, whatever the service knows by then; a describe that
\* succeeds makes the record detailed, so that at most one describe succeeds
\* over a sequence of reads, while every describe that fails is followed by
\* another at the next read.
C24_OnDemand ==
    /\ [][arg' # arg =>
            /\ needs_details(ejob) => ddbCalls' = ddbCalls + 1
            /\ ~needs_details(ejob) => (ddbCalls' = ddbCalls /\ ejob' = ejob)
            /\ ejob' # ejob => (needs_details(ejob) /\ ~needs_details(ejob'))]_vars
    /\ [][arg' = arg => (ddbCalls' = ddbCalls /\ ejob' = ejob)]_vars

C24_Witness ==
    /\ op = "reads"
    /\ ddbCalls = 1
    /\ Len(s3Calls) = 2
    /\ arg.which = "files"
    /\ ~needs_details(arg.before)
    /\ ejob.status = "IN_PROGRESS"
    /\ edesc.Status = "COMPLETED"
    /\ result.kind = "return"

\* the data files that the manifest lists, and the text of the j-th of them
ListedKeys ==
    LET lines == splitlines(body.files)
    IN [j \in 1..Len(lines) |-> lines[j][1].data["dataFileS3Key"]]
TextOfFile(j) == body.data[ListedKeys[j][3]].text

\* the items written in a text, in line order, and whether some line of it
\* does not parse
ItemsIn(text) ==
    LET recs == SelectSeq(text, LAMBDA p :
                    p.syntax = "json" \/ (p.syntax = "ion" /\ p.value.ion = "struct"))
    IN [i \in 1..Len(recs) |->
          IF recs[i].syntax = "json" THEN recs[i].data["Item"]
          ELSE recs[i].value.fields["Item"]]
Unreadable(j) == \E i \in 1..Len(TextOfFile(j)) : TextOfFile(j)[i] = BadJson

\* the items of the first n listed files, one file after the other
RECURSIVE FlatItems(_)
FlatItems(n) == IF n = 0 THEN <<>> ELSE FlatItems(n - 1) \o ItemsIn(TextOfFile(n))

\* the listed files up to the first that cannot be read
Readable ==
    Cardinality({n \in 1..Len(ListedKeys) : \A j \in 1..n : ~Unreadable(j)})

\* the get_object calls for data files made so far: all calls but the first
DataFetches == IF s3Calls = <<>> THEN 0 ELSE Len(s3Calls) - 1

\* C25: the items of ExportJob.read_dynamodb_json / read_amazon_ion come out
\* file by file in manifest order and in line order; nothing is fetched before
\* the first item is asked for; file k+1 is fetched only when all items of
\* file k have been taken; the sequence ends after the last item of the last
\* file.
C25_LazyFlatSequence ==
    op = "stream"
        => /\ arg.pc = "created" => (s3Calls = <<>> /\ ddbCalls = 0 /\ out = <<>>)
           /\ Len(out) <= Len(FlatItems(Readable))
           /\ \A i \in 1..Len(out) : out[i] = FlatItems(Readable)[i]
           /\ \A m \in 1..DataFetches :
                /\ s3Calls[1 + m].Key = ListedKeys[m]
                /\ Len(out) >= Len(FlatItems(m - 1))
                /\ arg.pc = "suspended" => Len(out) > Len(FlatItems(DataFetches - 1))
           /\ arg.pc = "finished" =>
                /\ result = Raise(StopIteration)
                /\ out = FlatItems(Len(ListedKeys))
                /\ DataFetches = Len(ListedKeys)

C25_Witness ==
    /\ op = "stream"
    /\ arg.pc = "finished"
    /\ arg.reader = "ion"
    /\ Len(ListedKeys) = 3
    /\ ListedKeys[1][3] = "c.json.gz"
    /\ Len(out) = 5
    /\ ddbCalls = 1

\* C26: every wait_until_complete ends by returning a COMPLETED record, by
\* raising the job-failed error, by raising Timeout, or by letting through the
\* error that the describe call raised; a describe that finds the handle
\* unknown brings no other error, and the wait never returns an absent value.
C26_Original ==
    (kind \in {"export", "import"} /\ pc = "done")
        => \/ outcome = "returned" /\ retval # NoneRec /\ retval.status = "COMPLETED"
           \/ JobFailed
           \/ TimeoutRaised
           \/ outcome = "raised" /\ lastDescribe = Raise(exc)

\* C27: every element of the list that list_exports / list_imports returns is
\* a job record, never an absent value, also when get_details is set and a
\* listed job is unknown to the service when it is described.
C27_Original ==
    lres = "returned" => \A i \in 1..Len(exports) : exports[i] # NoneRec

\* C28: the elapsed seconds yielded with an attempt are the whole seconds that
\* have passed since the iteration started, the sleep as it was actually slept
\* included, and so never more than the timeout, the last attempt with its
\* shortened sleep included.
C28_Original ==
    (kind = "plain" /\ ideal /\ pc = "body")
        => /\ elapsed = IntSeconds(yieldAt)
           /\ elapsed <= timeout

\* C29: for a detailed export record with a bucket and no prefix (the
\* description has no S3Prefix, or an empty one) the locations are
\* s3://<bucket>/AWSDynamoDB/<short-id>/...: no text stands for the absent
\* prefix and no empty segment comes between the bucket and AWSDynamoDB.
C29_Original ==
    (/\ op = "job"
     /\ arg # NoneRec
     /\ edesc.S3Prefix \in {NoneText, <<>>}
     /\ arg.of = from_export_description(edesc))
        => LET root == <<"s3:", "/", "/", arg.of.s3_bucket, "/", "AWSDynamoDB", "/">>
                            \o FinalSegment(arg.of.arn) \o <<"/">>
           IN /\ arg.data = root \o <<"data", "/">>
              /\ arg.manifest_files = root \o <<"manifest-files.json">>
              /\ arg.manifest_summary = root \o <<"manifest-summary.json">>
====
